---- MODULE Spec2Model ----
(***************************************************************************)
(* Model of markforge: the CLI converter (cli_converter.py), the GUI       *)
(* converter (gui_converter.py) and the cleanup script (cleanup.py).       *)
(*                                                                         *)
(* A file name is a sequence of tokens; "." and "_temp_chunk_" are tokens  *)
(* of their own, so that Path.stem, Path.suffix, str.lower, the chunk      *)
(* naming of split_pdf and the name test of cleanup.py are computed on the *)
(* name as the code computes them.  A path is a sequence of names, the     *)
(* first being the folder under the working directory ("in", "out", ...).  *)
(* The file system is the pair fsDirs (set of directory paths) and fsFiles *)
(* (function from file paths to contents).                                 *)
(***************************************************************************)
EXTENDS Integers, Sequences, FiniteSets, TLC

\* ---------------------------------------------------------------- bounds
MaxFiles == 2
MaxOps == 2
MaxCleans == 2
MaxClicks == 3
MaxFaults == 2
MaxPages == 12
MaxChunkSize == 4

\* ------------------------------------------------------ program constants
MAX_PAGES_PER_CHUNK == 25
SLIDER_DEFAULT == 25
SLIDER_TO == 100

INPUT_DIR == << <<"in">> >>
OUTPUT_DIR == << <<"out">> >>

\* ------------------------------------------------------- names and paths
Min(a, b) == IF a < b THEN a ELSE b

\* str.rfind("."): the last position holding ".", 0 when there is none
RFindDot(name) ==
  LET S == {k \in 1..Len(name) : name[k] = "."}
  IN  IF S = {} THEN 0 ELSE CHOOSE k \in S : \A j \in S : j <= k

\* pathlib: the suffix starts at the last dot unless that dot is the first
\* or the last character of the name
Suffix(name) ==
  LET k == RFindDot(name)
  IN  IF 1 < k /\ k < Len(name) THEN SubSeq(name, k, Len(name)) ELSE <<>>

Stem(name) ==
  LET k == RFindDot(name)
  IN  IF 1 < k /\ k < Len(name) THEN SubSeq(name, 1, k - 1) ELSE name

LowerTok(t) ==
  CASE t = "PDF" -> "pdf"
    [] t = "PPTX" -> "pptx"
    [] OTHER -> t

Lower(s) == [k \in 1..Len(s) |-> LowerTok(s[k])]

\* str.replace(" ", "_")
ReplaceSpace(s) == [k \in 1..Len(s) |-> IF s[k] = " " THEN "_" ELSE s[k]]

\* str(k) for the chunk numbers
Digit(k) == <<"0", "1", "2", "3", "4", "5", "6", "7", "8", "9">>[k + 1]
RECURSIVE Str(_)
Str(k) == IF k < 10 THEN <<Digit(k)>> ELSE Str(k \div 10) \o <<Digit(k % 10)>>

Parent(p) == SubSeq(p, 1, Len(p) - 1)
Name(p) == p[Len(p)]
IsPrefix(p, q) == Len(p) <= Len(q) /\ SubSeq(q, 1, Len(p)) = p
Under(p, d) == Len(p) > Len(d) /\ IsPrefix(d, p)

\* os.path.relpath(root, source_root) followed by dest_root / rel_path
RelPath(root, source) == SubSeq(root, Len(source) + 1, Len(root))
DestDir(dest, root, source) == dest \o RelPath(root, source)

\* f"{input_file_path.stem}.md"
OutputFileName(file) == Stem(file) \o <<".", "md">>
\* f"{input_path.stem}_temp_chunk_{i // chunk_size}.pdf"
ChunkName(file, k) == Stem(file) \o <<"_temp_chunk_">> \o Str(k) \o <<".", "pdf">>

\* cleanup.py: "_temp_chunk_" in file and file.endswith(".pdf")
IsTempChunkName(file) ==
  /\ \E k \in 1..Len(file) : file[k] = "_temp_chunk_"
  /\ Len(file) >= 2
  /\ SubSeq(file, Len(file) - 1, Len(file)) = <<".", "pdf">>

PDF_EXT == <<".", "pdf">>
OFFICE_EXTS == {<<".", "docx">>, <<".", "pptx">>, <<".", "xlsx">>}
TXT_EXT == <<".", "txt">>

\* ------------------------------------------------------------ split_pdf
RECURSIVE RangeFrom(_, _, _)
\* range(i, total_pages, chunk_size) as the sequence of its values
RangeFrom(i, total_pages, chunk_size) ==
  IF i >= total_pages THEN <<>>
  ELSE <<i>> \o RangeFrom(i + chunk_size, total_pages, chunk_size)

\* split_pdf without the min() on end_page
PageRangesNoMin(total_pages, chunk_size) ==
  LET r == RangeFrom(0, total_pages, chunk_size)
  IN  [k \in 1..Len(r) |->
        [from |-> r[k],
         to |-> r[k] + chunk_size - 1,
         no |-> r[k] \div chunk_size]]

\* the page ranges the loop of split_pdf cuts: one [from, to, no] per pass
PageRanges(total_pages, chunk_size) ==
  LET r == RangeFrom(0, total_pages, chunk_size)
  IN  [k \in 1..Len(r) |->
        [from |-> r[k],
         to |-> Min(r[k] + chunk_size, total_pages) - 1,
         no |-> r[k] \div chunk_size]]

\* ---------------------------------------------------------- file system
Put(f, p, c) == [q \in (DOMAIN f) \cup {p} |-> IF q = p THEN c ELSE f[q]]
Remove(f, p) == [q \in (DOMAIN f) \ {p} |-> f[q]]
Prefixes(p) == {SubSeq(p, 1, k) : k \in 1..Len(p)}

\* os.makedirs(p, exist_ok=True) raises when p or one of its parents is a file
MakedirsFails(f, p) == \E q \in Prefixes(p) : q \in DOMAIN f
Makedirs(dirs, p) == dirs \cup Prefixes(p)

\* Path.exists()
Exists(dirs, f, p) == p \in dirs \/ p \in DOMAIN f

\* the files entry of os.walk for directory d
Listing(f, d) == {Name(p) : p \in {q \in DOMAIN f : Parent(q) = d}}
\* the dirs entry of os.walk for directory d
SubDirs(dirs, d) == {q \in dirs : Len(q) > 1 /\ Parent(q) = d}

\* the orders in which a set of directories can be put on the walk's stack
Orders(S) ==
  {s \in [1..Cardinality(S) -> S] : \A a, b \in 1..Cardinality(S) : a # b => s[a] # s[b]}

\* contents: pages lo..hi of document doc, and the text read from the file
PdfContent(doc, lo, hi) == [doc |-> doc, lo |-> lo, hi |-> hi, text |-> <<>>]
Piece(c) == [doc |-> c.doc, lo |-> c.lo, hi |-> c.hi]

\* markdown_content: None, or a string (a sequence of pieces)
None == [some |-> FALSE, text |-> <<>>]
Some(t) == [some |-> TRUE, text |-> t]
Truthy(mc) == mc.some /\ mc.text # <<>>

\* -------------------------------------------------------------- the state
VARIABLES
  fsDirs, fsFiles,
  pc, mode, source_root, dest_root, chunk_size,
  stack, root, current_dest_dir, files,
  input_file_path, files_to_process, chunk_i, full_markdown,
  input_dir, output_dir, lbl_input, lbl_output, slider_chunk, lbl_slider,
  btn_start, workers, pressed,
  events, ops, cleans, clicks, faults, start_files

fsv == <<fsDirs, fsFiles>>
walkv == <<stack, root, current_dest_dir, files>>
pdfv == <<input_file_path, files_to_process, chunk_i, full_markdown>>
argv == <<mode, source_root, dest_root, chunk_size>>
guiv == <<input_dir, output_dir, lbl_input, lbl_output, slider_chunk, lbl_slider>>
btnv == <<btn_start, workers, pressed>>
vars == <<fsDirs, fsFiles, pc, mode, source_root, dest_root, chunk_size,
          stack, root, current_dest_dir, files,
          input_file_path, files_to_process, chunk_i, full_markdown,
          input_dir, output_dir, lbl_input, lbl_output, slider_chunk, lbl_slider,
          btn_start, workers, pressed, events, ops, cleans, clicks, faults, start_files>>

NoPath == <<>>

\* ------------------------------------------------------ the input trees
A_PDF == <<"a", ".", "pdf">>
A_DOCX == <<"a", ".", "docx">>
B_TXT == <<"b", ".", "txt">>
B_UPPER_PPTX == <<"b", ".", "PPTX">>
C_JPG == <<"c", ".", "jpg">>
A_CHUNK0 == <<"a", "_temp_chunk_", "0", ".", "pdf">>
D_NAME == <<"d">>
A_MD == <<"a", ".", "md">>

FileNames == {A_PDF, A_DOCX, B_TXT, B_UPPER_PPTX, C_JPG, A_CHUNK0}

DirSets ==
  {{INPUT_DIR},
   {INPUT_DIR, INPUT_DIR \o <<D_NAME>>},
   {INPUT_DIR, INPUT_DIR \o <<A_MD>>},
   {INPUT_DIR, INPUT_DIR \o <<D_NAME>>, INPUT_DIR \o <<D_NAME, D_NAME>>}}

PageChoices == {1, MAX_PAGES_PER_CHUNK + 1}

ContentChoices(p) ==
  IF Lower(Suffix(Name(p))) = PDF_EXT
  THEN IF IsTempChunkName(Name(p))
       THEN {PdfContent(p, 0, 0)}
       ELSE {PdfContent(p, 0, n - 1) : n \in PageChoices}
  ELSE IF Name(p) \in {B_TXT, A_DOCX}
  THEN {[doc |-> p, lo |-> 0, hi |-> 0, text |-> t] :
          t \in {<<>>, <<[doc |-> p, lo |-> 0, hi |-> 0]>>}}
  ELSE {[doc |-> p, lo |-> 0, hi |-> 0, text |-> <<>>]}

RECURSIVE SubsetsUpTo(_, _)
\* the subsets of S of at most n elements
SubsetsUpTo(S, n) ==
  IF n = 0 THEN {{}}
  ELSE LET P == SubsetsUpTo(S, n - 1) IN P \cup {T \cup {x} : T \in P, x \in S}

\* a function over the paths F that gives each a content it may have
Trees(F) == {f \in [F -> UNION {ContentChoices(p) : p \in F}] :
               \A p \in F : f[p] \in ContentChoices(p)}

\* the START button: its state and, while a run is on, the chunk size its
\* text shows ("Processing (Chunk: n)..."); 0 stands for "START CONVERSION"
BtnNormal == [state |-> "normal", chunk |-> 0]
BtnDisabled(chunk_val) == [state |-> "disabled", chunk |-> chunk_val]

SliderLabel(val) ==
  [val |-> val,
   desc |-> IF val <= 30 THEN "(Safe)" ELSE IF val <= 60 THEN "(Faster)" ELSE "(High RAM!)"]

InitRun ==
  /\ pc = "idle" /\ mode = "none"
  /\ source_root = NoPath /\ dest_root = NoPath /\ chunk_size = 0
  /\ stack = <<>> /\ root = NoPath /\ current_dest_dir = NoPath /\ files = {}
  /\ input_file_path = NoPath /\ files_to_process = <<>> /\ chunk_i = 0
  /\ full_markdown = <<>>
  /\ events = {} /\ ops = 0 /\ cleans = 0 /\ clicks = 0 /\ faults = 0

\* history of start_thread: the folders and the chunk size that were selected
\* when START was last pressed (the program keeps only chunk_val, as the
\* argument of the thread)
Press(i, o, c) == [input_dir |-> i, output_dir |-> o, chunk_val |-> c]
NoPress == Press(NoPath, NoPath, 0)

InitGui ==
  /\ input_dir = NoPath /\ output_dir = NoPath
  /\ slider_chunk = SLIDER_DEFAULT
  /\ lbl_slider = SliderLabel(SLIDER_DEFAULT)
  /\ lbl_input = <<"No folder selected">> /\ lbl_output = <<"No folder selected">>
  /\ btn_start = BtnNormal /\ workers = 0
  /\ pressed = NoPress

Init ==
  /\ InitRun /\ InitGui
  /\ \E D \in DirSets :
       /\ fsDirs = D
       /\ \E F \in SubsetsUpTo({d \o <<n>> : d \in D, n \in FileNames}, MaxFiles) :
            fsFiles \in Trees(F)
  /\ start_files = fsFiles

\* ------------------------------------------------------------- split_pdf
\* The outcomes of split_pdf(input_path, chunk_size) on the file system f:
\* ret is the list returned, f the file system left behind.  failAt = n + 1
\* is the pass without exception; failAt = k is an exception raised in pass
\* k of the loop (insert_pdf or save), after k - 1 chunks were saved.
SplitPdf(input_path, cs, dirs, f) ==
  IF input_path \notin DOMAIN f
  THEN {[ret |-> <<input_path>>, f |-> f, made |-> {}, fault |-> FALSE]}
  ELSE
    LET c == f[input_path]
        total_pages == c.hi - c.lo + 1
        rg == PageRanges(total_pages, cs)
        n == Len(rg)
        chunk_path(k) == Parent(input_path) \o <<ChunkName(Name(input_path), rg[k].no)>>
        saved(m) == [q \in (DOMAIN f) \cup {chunk_path(k) : k \in 1..m} |->
                       IF \E k \in 1..m : q = chunk_path(k)
                       THEN LET k == CHOOSE k \in 1..m : q = chunk_path(k)
                            IN  PdfContent(c.doc, c.lo + rg[k].from, c.lo + rg[k].to)
                       ELSE f[q]]
        canSave(k) == chunk_path(k) \notin dirs
    IN  IF total_pages <= cs
        THEN {[ret |-> <<input_path>>, f |-> f, made |-> {}, fault |-> FALSE]}
        ELSE {[ret |-> IF failAt = n + 1 THEN [k \in 1..n |-> chunk_path(k)]
                       ELSE <<input_path>>,
               f |-> saved(failAt - 1),
               made |-> {chunk_path(k) : k \in 1..(failAt - 1)},
               fault |-> failAt <= n /\ canSave(failAt)] :
                failAt \in {k \in 1..(n + 1) : \A j \in 1..(k - 1) : canSave(j)}}

\* --------------------------------------------------------- end of a run
\* process_directory returns to __main__; process_logic returns to
\* run_conversion, whose finally clause re-enables the START button
EndRun(status, m) ==
  /\ pc' = status
  /\ btn_start' = IF m = "gui" THEN BtnNormal ELSE btn_start
  /\ workers' = IF m = "gui" THEN workers - 1 ELSE workers
  /\ UNCHANGED pressed

\* process_directory / process_logic up to the walk
EnterPipeline(m, src, dst, cs) ==
  /\ mode' = m /\ source_root' = src /\ dest_root' = dst /\ chunk_size' = cs
  /\ root' = NoPath /\ current_dest_dir' = NoPath /\ files' = {}
  /\ input_file_path' = NoPath /\ files_to_process' = <<>>
  /\ chunk_i' = 0 /\ full_markdown' = <<>>
  /\ IF src \notin fsDirs
     THEN /\ EndRun("done", m)
          /\ stack' = <<>>
          /\ events' = {<<"not found", src, NoPath>>}
     ELSE /\ pc' = "walk"
          /\ stack' = <<src>>
          /\ events' = {}
          /\ UNCHANGED btnv

Startable == pc \in {"idle", "done", "crashed", "cleaned"} /\ ops < MaxOps

\* cli_converter.py __main__
CliMain ==
  /\ Startable
  /\ ops' = ops + 1
  /\ start_files' = fsFiles
  /\ EnterPipeline("cli", INPUT_DIR, OUTPUT_DIR, MAX_PAGES_PER_CHUNK)
  /\ UNCHANGED <<fsv, guiv, cleans, clicks, faults>>

\* one pass of "for root, dirs, files in os.walk(source_root)" up to the
\* file loop: rel_path, current_dest_dir, os.makedirs
WalkDir ==
  /\ pc = "walk"
  /\ IF stack = <<>>
     THEN /\ EndRun("done", mode)
          /\ UNCHANGED <<fsv, walkv, events>>
     ELSE LET r == Head(stack)
              dest == DestDir(dest_root, r, source_root)
          IN  /\ \E o \in Orders(SubDirs(fsDirs, r)) : stack' = o \o Tail(stack)
              /\ root' = r
              /\ current_dest_dir' = dest
              /\ IF MakedirsFails(fsFiles, dest)
                 THEN /\ EndRun("crashed", mode)
                      /\ events' = events \cup {<<"walk", r, NoPath>>, <<"error", r, dest>>}
                      /\ UNCHANGED <<fsv, files>>
                 ELSE /\ pc' = "files"
                      /\ fsDirs' = Makedirs(fsDirs, dest)
                      /\ files' = Listing(fsFiles, r)
                      /\ events' = events \cup {<<"walk", r, NoPath>>}
                      /\ UNCHANGED <<fsFiles, btnv>>
  /\ UNCHANGED <<argv, pdfv, guiv, ops, cleans, clicks, faults, start_files>>

\* ------------------------------------------------ writing the .md file
MdContent(out, text) == [doc |-> out, lo |-> 0, hi |-> 0, text |-> text]

\* "if markdown_content: open(output_file_path, 'w').write(...)" in the CLI,
\* "try: open(...).write(markdown_content if markdown_content else '')" in
\* the GUI; f and ev are the file system and the events before the write.
\* Ends the handling of the file: back to the file loop, or the run dies.
SaveOutput(in, out, mc, f, ev) ==
  IF mode = "cli"
  THEN IF ~Truthy(mc)
       THEN /\ pc' = "files" /\ fsFiles' = f /\ events' = ev
            /\ UNCHANGED btnv
       ELSE IF out \in fsDirs'
       THEN /\ EndRun("crashed", mode)
            /\ fsFiles' = f /\ events' = ev \cup {<<"error", in, out>>}
       ELSE /\ pc' = "files"
            /\ fsFiles' = Put(f, out, MdContent(out, mc.text))
            /\ events' = ev \cup {<<"Saved", in, out>>}
            /\ UNCHANGED btnv
  ELSE /\ pc' = "files"
       /\ UNCHANGED btnv
       /\ IF out \in fsDirs'
          THEN /\ fsFiles' = f
               /\ events' = ev \cup {<<"Error saving", in, out>>}
          ELSE /\ fsFiles' = Put(f, out, MdContent(out, IF Truthy(mc) THEN mc.text ELSE <<>>))
               /\ events' = ev \cup {<<"Saved", in, out>>}

\* convert_office: result.text_content, or None on an exception; the text a
\* file converts to is part of its content.  can is whether an exception
\* may be injected; a file that is gone always raises
ConvertOffice(in, f, can) ==
  IF in \in DOMAIN f THEN {Some(f[in].text)} \cup (IF can THEN {None} ELSE {})
  ELSE {None}

\* the .txt branch of process_directory: f.read(), or None on an exception
ReadTxt(in, f, can) ==
  IF in \in DOMAIN f THEN {Some(f[in].text)} \cup (IF can THEN {None} ELSE {})
  ELSE {None}

\* the extension dispatch for the files that are not PDFs
Dispatch(m, ext, in, f, can) ==
  IF ext \in OFFICE_EXTS THEN ConvertOffice(in, f, can)
  ELSE IF m = "cli"
  THEN IF ext = TXT_EXT THEN ReadTxt(in, f, can) ELSE {None}
  ELSE {Some(<<>>)}

IMAGES == <<"images">>

\* one pass of "for file in files" up to the conversion; for a PDF, the
\* start of convert_pdf_safely: split_pdf and os.makedirs(images_dir)
ProcessFile ==
  /\ pc = "files"
  /\ IF files = {}
     THEN /\ pc' = "walk"
          /\ UNCHANGED <<fsv, files, pdfv, events, btnv, faults>>
     ELSE \E file \in files :
       LET in == root \o <<file>>
           out == current_dest_dir \o <<OutputFileName(file)>>
           ext == Lower(Suffix(file))
           images_dir == current_dest_dir \o <<IMAGES, ReplaceSpace(Stem(file))>>
           ev == events \cup {<<"Processing", in, NoPath>>}
           recognized == ext \in OFFICE_EXTS \/ (mode = "cli" /\ ext = TXT_EXT)
       IN  /\ files' = files \ {file}
           /\ IF mode = "cli" /\ Exists(fsDirs, fsFiles, out)
              THEN /\ events' = events \cup {<<"Skipping", in, out>>}
                   /\ UNCHANGED <<pc, fsv, pdfv, btnv, faults>>
              ELSE IF ext = PDF_EXT
              THEN \E s \in SplitPdf(in, chunk_size, fsDirs, fsFiles) :
                     /\ s.fault => faults < MaxFaults
                     /\ faults' = IF s.fault THEN faults + 1 ELSE faults
                     /\ fsFiles' = s.f
                     /\ input_file_path' = in
                     /\ files_to_process' = s.ret
                     /\ chunk_i' = 0
                     /\ full_markdown' = <<>>
                     /\ IF MakedirsFails(s.f, images_dir)
                        THEN /\ EndRun("crashed", mode)
                             /\ events' = ev \cup {<<"made", in, q>> : q \in s.made}
                                             \cup {<<"error", in, images_dir>>}
                             /\ UNCHANGED fsDirs
                        ELSE /\ pc' = "chunks"
                             /\ fsDirs' = Makedirs(fsDirs, images_dir)
                             /\ events' = ev \cup {<<"made", in, q>> : q \in s.made}
                                             \cup {<<"list", in, s.ret[k]>> : k \in 1..Len(s.ret)}
                             /\ UNCHANGED btnv
              ELSE \E mc \in Dispatch(mode, ext, in, fsFiles, faults < MaxFaults) :
                     LET failed == recognized /\ mc = None
                     IN  /\ UNCHANGED <<fsDirs, pdfv>>
                         /\ faults' = IF failed /\ in \in DOMAIN fsFiles
                                       THEN faults + 1 ELSE faults
                         /\ SaveOutput(in, out, mc, fsFiles,
                                       IF failed THEN ev \cup {<<"Failed", in, in>>} ELSE ev)
  /\ UNCHANGED <<argv, stack, root, current_dest_dir, guiv, ops, cleans, clicks, start_files>>

\* where the loop of convert_pdf_safely goes after the attempt on a chunk:
\* the except clause swallows the exception, so a failed chunk is followed
\* by the next one, and the function returns after the last
AfterAttemptReturn(ok, last) == IF last \/ ~ok THEN "return" ELSE "next"

AfterAttempt(ok, last) == IF last THEN "return" ELSE "next"

\* one pass of "for i, current_file in enumerate(files_to_process)":
\* convert_single_pdf, the except clause, the finally clause; after the last
\* pass convert_pdf_safely returns and the caller writes the .md file
ConvertChunk ==
  /\ pc = "chunks"
  /\ LET current_file == files_to_process[chunk_i + 1]
         there == current_file \in DOMAIN fsFiles
         out == current_dest_dir \o <<OutputFileName(Name(input_file_path))>>
         temp == current_file # input_file_path
     IN  \E ok \in (IF there THEN BOOLEAN ELSE {FALSE}),
            rm \in (IF there /\ temp THEN BOOLEAN ELSE {FALSE}) :
           LET nf == faults + (IF there /\ ~ok THEN 1 ELSE 0)
                            + (IF there /\ temp /\ ~rm THEN 1 ELSE 0)
               md == IF ok THEN Append(full_markdown, Piece(fsFiles[current_file]))
                     ELSE full_markdown
               f == IF rm THEN Remove(fsFiles, current_file) ELSE fsFiles
               ev == events \cup {<<"part", input_file_path, current_file>>}
                       \cup (IF ok THEN {} ELSE {<<"Failed", input_file_path, current_file>>})
                       \cup (IF rm THEN {<<"removed", input_file_path, current_file>>} ELSE {})
                       \cup (IF temp /\ ~rm THEN {<<"not removed", input_file_path, current_file>>} ELSE {})
           IN  /\ nf <= MaxFaults
               /\ faults' = nf
               /\ full_markdown' = md
               /\ chunk_i' = chunk_i + 1
               /\ UNCHANGED <<fsDirs, input_file_path, files_to_process>>
               /\ IF AfterAttempt(ok, chunk_i + 1 = Len(files_to_process)) = "next"
                  THEN /\ fsFiles' = f /\ events' = ev
                       /\ UNCHANGED <<pc, btnv>>
                  ELSE SaveOutput(input_file_path, out, Some(md), f, ev)
  /\ UNCHANGED <<argv, walkv, guiv, ops, cleans, clicks, start_files>>

\* ------------------------------------------------------------ cleanup.py
\* a scan of the top folder only, instead of os.walk
InputTempChunksTop(f) == {p \in DOMAIN f : Parent(p) = INPUT_DIR /\ IsTempChunkName(Name(p))}

InputTempChunks(f) == {p \in DOMAIN f : Under(p, INPUT_DIR) /\ IsTempChunkName(Name(p))}

\* shutil.rmtree(d) on a set of paths
Rmtree(S, d) == {p \in S : ~IsPrefix(d, p)}

\* the tag of the messages of the n-th cleanup
CleanNo(n) == <<Str(n)>>

\* clean_environment, the whole script.  rmtree either clears the output
\* folder or raises and is reported ("Could not delete output folder"; the
\* folder is then taken to be left as it was); each os.remove of a stray
\* chunk either removes it or raises and is reported ("failed to delete")
CleanEnvironment ==
  /\ pc \in {"idle", "done", "crashed", "cleaned"}
  /\ cleans < MaxCleans
  /\ cleans' = cleans + 1
  /\ pc' = "cleaned"
  /\ \E rmtree_ok \in BOOLEAN, kept \in SUBSET InputTempChunks(fsFiles) :
       LET has_out == Exists(fsDirs, fsFiles, OUTPUT_DIR)
           cleared == has_out /\ rmtree_ok
           nf == faults + Cardinality(kept) + (IF has_out /\ ~rmtree_ok THEN 1 ELSE 0)
           f1 == IF cleared
                 THEN [p \in Rmtree(DOMAIN fsFiles, OUTPUT_DIR) |-> fsFiles[p]]
                 ELSE fsFiles
       IN  /\ has_out \/ rmtree_ok
           /\ nf <= MaxFaults
           /\ faults' = nf
           /\ fsDirs' = IF cleared THEN Rmtree(fsDirs, OUTPUT_DIR) ELSE fsDirs
           /\ fsFiles' = [p \in (DOMAIN f1) \ (InputTempChunks(fsFiles) \ kept) |-> f1[p]]
           /\ events' = (IF pc = "cleaned" THEN events ELSE {})
                          \cup {<<"deleted", p, CleanNo(cleans')>> :
                                  p \in InputTempChunks(fsFiles) \ kept}
                          \cup {<<"failed to delete", p, CleanNo(cleans')>> : p \in kept}
                          \cup (IF cleared
                                THEN {<<"Output folder cleared", OUTPUT_DIR, CleanNo(cleans')>>}
                                ELSE {})
                          \cup (IF has_out /\ ~cleared
                                THEN {<<"Could not delete output folder", OUTPUT_DIR,
                                       CleanNo(cleans')>>}
                                ELSE {})
  /\ start_files' = fsFiles
  /\ UNCHANGED <<argv, walkv, pdfv, guiv, btnv, ops, clicks>>

\* ------------------------------------------------------------- the GUI
ALT_DIR == << <<"alt">> >>
OUT2_DIR == << <<"out2">> >>
InputChoices == {INPUT_DIR, ALT_DIR}
OutputChoices == {OUTPUT_DIR, OUT2_DIR}
SliderValues == {SLIDER_DEFAULT, SLIDER_TO}

\* App.select_input: askdirectory returns a folder, or "" when cancelled
SelectInput ==
  /\ clicks < MaxClicks
  /\ clicks' = clicks + 1
  /\ \E path \in InputChoices \cup {NoPath} :
       IF path # NoPath
       THEN /\ input_dir' = path
            /\ lbl_input' = <<".../", Name(path)>>
       ELSE UNCHANGED <<input_dir, lbl_input>>
  /\ UNCHANGED <<fsv, pc, argv, walkv, pdfv, output_dir, lbl_output, slider_chunk,
                 lbl_slider, btnv, events, ops, cleans, faults, start_files>>

\* App.select_output
SelectOutput ==
  /\ clicks < MaxClicks
  /\ clicks' = clicks + 1
  /\ \E path \in OutputChoices \cup {NoPath} :
       IF path # NoPath
       THEN /\ output_dir' = path
            /\ lbl_output' = <<".../", Name(path)>>
       ELSE UNCHANGED <<output_dir, lbl_output>>
  /\ UNCHANGED <<fsv, pc, argv, walkv, pdfv, input_dir, lbl_input, slider_chunk,
                 lbl_slider, btnv, events, ops, cleans, faults, start_files>>

\* the user drags the chunk slider; its command is App.update_slider_label
UpdateSliderLabel ==
  /\ clicks < MaxClicks
  /\ clicks' = clicks + 1
  /\ \E value \in SliderValues :
       /\ slider_chunk' = value
       /\ lbl_slider' = SliderLabel(value)
  /\ UNCHANGED <<fsv, pc, argv, walkv, pdfv, input_dir, output_dir, lbl_input,
                 lbl_output, btnv, events, ops, cleans, faults, start_files>>

\* start_thread that changes the text of the button but leaves it enabled
DisableStartTextOnly(chunk_val) == [state |-> "normal", chunk |-> chunk_val]

\* what start_thread does to the START button before it starts the thread
DisableStart(chunk_val) == BtnDisabled(chunk_val)

\* App.start_thread, the command of the START button (a disabled button
\* does not run its command)
StartThread ==
  /\ btn_start.state = "normal"
  /\ ops < MaxOps
  /\ IF input_dir = NoPath \/ output_dir = NoPath
     THEN /\ events' = events \cup {<<"Please select both", NoPath, NoPath>>}
          /\ UNCHANGED <<pc, argv, btnv, ops, start_files>>
     ELSE LET chunk_val == slider_chunk
          IN  /\ btn_start' = DisableStart(chunk_val)
              /\ workers' = workers + 1
              /\ pressed' = Press(input_dir, output_dir, chunk_val)
              /\ pc' = "load"
              /\ mode' = "gui"
              /\ chunk_size' = chunk_val
              /\ ops' = ops + 1
              /\ events' = {}
              /\ start_files' = fsFiles
              /\ UNCHANGED <<source_root, dest_root>>
  /\ UNCHANGED <<fsv, walkv, pdfv, guiv, cleans, clicks, faults>>

\* App.run_conversion up to the walk: load_all_models, MarkItDown, then
\* process_logic(self.input_dir, self.output_dir, ..., chunk_size); an
\* exception goes to the except clause and the finally clause
RunConversion ==
  /\ pc = "load"
  /\ \E loaded \in BOOLEAN :
       IF loaded
       THEN /\ EnterPipeline("gui", input_dir, output_dir, chunk_size)
            /\ UNCHANGED faults
       ELSE /\ faults < MaxFaults
            /\ faults' = faults + 1
            /\ EndRun("crashed", "gui")
            /\ events' = {<<"error", NoPath, NoPath>>}
            /\ UNCHANGED <<argv, walkv, pdfv>>
  /\ UNCHANGED <<fsv, guiv, ops, cleans, clicks, start_files>>

GuiFileNames == {A_PDF, A_DOCX, B_TXT}
GuiDirSets == {{INPUT_DIR}, {INPUT_DIR, INPUT_DIR \o <<A_MD>>}}

InitGuiTree ==
  /\ InitRun /\ InitGui
  /\ \E D \in GuiDirSets :
       /\ fsDirs = D \cup {ALT_DIR, OUTPUT_DIR, OUT2_DIR}
       /\ \E F \in SubsetsUpTo({d \o <<n>> : d \in D, n \in GuiFileNames}, MaxFiles) :
            fsFiles \in Trees(F)
  /\ start_files = fsFiles

\* ------------------------------------------------- split_pdf on its own
InitSplit ==
  /\ InitRun /\ InitGui
  /\ fsDirs = {INPUT_DIR}
  /\ \E n \in 1..MaxPages :
       fsFiles = [p \in {INPUT_DIR \o <<A_PDF>>} |-> PdfContent(p, 0, n - 1)]
  /\ start_files = fsFiles

\* a call split_pdf(input_path, chunk_size)
SplitCall ==
  /\ pc = "idle"
  /\ \E cs \in 1..MaxChunkSize :
     \E s \in SplitPdf(INPUT_DIR \o <<A_PDF>>, cs, fsDirs, fsFiles) :
       /\ s.fault => faults < MaxFaults
       /\ faults' = IF s.fault THEN faults + 1 ELSE faults
       /\ chunk_size' = cs
       /\ input_file_path' = INPUT_DIR \o <<A_PDF>>
       /\ files_to_process' = s.ret
       /\ fsFiles' = s.f
       /\ events' = {<<"made", INPUT_DIR \o <<A_PDF>>, q>> : q \in s.made}
  /\ pc' = "split"
  /\ UNCHANGED <<fsDirs, mode, source_root, dest_root, walkv, chunk_i, full_markdown,
                 guiv, btnv, ops, cleans, clicks, start_files>>

\* ------------------------------------------------------- specifications
Pipeline == WalkDir \/ ProcessFile \/ ConvertChunk

Next == CliMain \/ Pipeline \/ CleanEnvironment

\* the CLI converter and the cleanup script on ./in and ./out
Spec == Init /\ [][Next]_vars

NextGui ==
  \/ SelectInput \/ SelectOutput \/ UpdateSliderLabel \/ StartThread \/ RunConversion
  \/ Pipeline

\* the GUI converter: the Tk callbacks and the worker thread
SpecGui == InitGuiTree /\ [][NextGui]_vars

\* split_pdf called on a PDF of 1..MaxPages pages
SpecSplit == InitSplit /\ [][SplitCall]_vars

\* ---------------------------------------------------------------- claims
Running == pc \in {"walk", "files", "chunks"}
Ended == pc \in {"done", "crashed"}
InputFiles(f) == {p \in DOMAIN f : Under(p, source_root)}
Mirror(p) == DestDir(dest_root, Parent(p), source_root) \o <<OutputFileName(Name(p))>>
Ext(p) == Lower(Suffix(Name(p)))
Has(kind) == \E e \in events : e[1] = kind
\* the text of fsFiles[out] is the conversion of the input file p
ConvertedFrom(out, p) ==
  /\ out \in DOMAIN fsFiles
  /\ fsFiles[out].text # <<>>
  /\ \A k \in 1..Len(fsFiles[out].text) : fsFiles[out].text[k].doc = start_files[p].doc
\* convert_pdf_safely has returned for input_file_path
PdfReturned ==
  /\ input_file_path # NoPath
  /\ chunk_i = Len(files_to_process)
  /\ pc \in {"walk", "files", "done"}

\* C1: after a complete first run from an empty output directory, every input
\* file has its own output file <stem>.md holding its conversion, and no two
\* input files share an output file.  Stated for the files both entry points
\* convert (PDF, Office with text) in a run without any failure.
C1_OneOutputPerInput ==
  (pc = "done" /\ ops = 1 /\ cleans = 0 /\ faults = 0) =>
    \A p \in InputFiles(start_files) :
      (Ext(p) = PDF_EXT \/ (Ext(p) \in OFFICE_EXTS /\ start_files[p].text # <<>>))
        => ConvertedFrom(Mirror(p), p)

\* C2: the output mirrors the input directory structure: after the run, for
\* every directory r the walk visited, <output root>/r is a directory, and
\* every .md written for r/<name>.<ext> is at <output root>/r/<name>.md.
C2_OutputMirrorsInput ==
  Ended =>
    /\ \A e \in events :
         e[1] = "walk" => DestDir(dest_root, e[2], source_root) \in fsDirs
    /\ \A e \in events : e[1] = "Saved" => e[3] = Mirror(e[2])

\* C3: a conversion failure on a chunk or a file never stops the run: a run
\* in progress can always take its next step; a run that no file-system
\* error aborted ends normally with every input file processed or skipped
\* and every chunk of every split PDF attempted; and when convert_pdf_safely
\* returns, every chunk of its list was attempted.
C3_FailuresDoNotStop ==
  /\ Running => ENABLED Pipeline
  /\ (mode = "cli" /\ Ended /\ ~Has("error")) =>
       /\ pc = "done"
       /\ \A p \in InputFiles(start_files) :
            \E e \in events : e[1] \in {"Processing", "Skipping"} /\ e[2] = p
       /\ \A e \in events :
            e[1] = "list" => <<"part", e[2], e[3]>> \in events
  /\ (mode = "cli" /\ PdfReturned) =>
       \A k \in 1..Len(files_to_process) :
         <<"part", input_file_path, files_to_process[k]>> \in events

\* C3 witness: the run ended normally although the first chunk of a PDF in
\* the top folder failed; its second chunk was attempted and a file of a
\* sub-folder, which the walk reaches later, was saved.
C3_Witness ==
  /\ mode = "cli" /\ pc = "done"
  /\ \E e \in events, g \in events, h \in events :
       /\ e[1] = "Failed" /\ Parent(e[2]) = INPUT_DIR
       /\ Name(e[3]) = ChunkName(Name(e[2]), 0)
       /\ g = <<"part", e[2], Parent(e[2]) \o <<ChunkName(Name(e[2]), 1)>> >>
       /\ h[1] = "Saved" /\ Parent(h[2]) # INPUT_DIR

\* C4: both entry points copy the text of a .txt file verbatim into its .md
\* output (here: a .txt file with text that shares its stem with no other
\* file, in a run without any failure).
C4_TxtCopied ==
  (pc = "done" /\ mode \in {"cli", "gui"} /\ faults = 0) =>
    \A p \in InputFiles(start_files) :
      ( /\ Ext(p) = TXT_EXT
        /\ start_files[p].text # <<>>
        /\ \A q \in InputFiles(start_files) : Mirror(q) = Mirror(p) => q = p )
      => /\ Mirror(p) \in DOMAIN fsFiles
         /\ fsFiles[Mirror(p)].text = start_files[p].text

SplitInput == INPUT_DIR \o <<A_PDF>>
SplitPages == start_files[SplitInput].hi + 1
CeilDiv(a, b) == (a + b - 1) \div b

\* the list returned holds ceil(N / chunk_size) chunks in page order, chunk k
\* holding pages k*chunk_size .. min((k+1)*chunk_size, N) - 1
ChunksAsClaimed ==
  /\ Len(files_to_process) = CeilDiv(SplitPages, chunk_size)
  /\ \A k \in 1..Len(files_to_process) :
       LET q == files_to_process[k] IN
         /\ q = Parent(SplitInput) \o <<ChunkName(A_PDF, k - 1)>>
         /\ q \in DOMAIN fsFiles
         /\ fsFiles[q].doc = SplitInput
         /\ fsFiles[q].lo = (k - 1) * chunk_size
         /\ fsFiles[q].hi = Min(k * chunk_size, SplitPages) - 1
         /\ fsFiles[q].lo <= fsFiles[q].hi
         /\ fsFiles[q].hi - fsFiles[q].lo + 1 <= chunk_size
  /\ \A page \in 0..(SplitPages - 1) :
       Cardinality({k \in 1..Len(files_to_process) :
                      /\ files_to_process[k] \in DOMAIN fsFiles
                      /\ fsFiles[files_to_process[k]].lo <= page
                      /\ page <= fsFiles[files_to_process[k]].hi}) = 1
  /\ fsFiles[SplitInput] = start_files[SplitInput]

NotSplit == files_to_process = <<SplitInput>>

C6_NoTempChunkRemains ==
  (PdfReturned /\ ~Has("not removed")) =>
    \A e \in events :
      (e[1] = "made" /\ e[2] = input_file_path) => e[3] \notin DOMAIN fsFiles

CleanFailed(ev) ==
  \E e \in ev : e[1] \in {"failed to delete", "Could not delete output folder"}

\* C7: a clean_environment that reports no deletion error leaves no output
\* directory and no file under the input directory whose name contains
\* '_temp_chunk_' and ends with '.pdf'; every other file and every directory
\* under the input directory is unchanged; run again, it changes nothing.
C7_CleanEnvironment ==
  [][(cleans' = cleans + 1 /\ ~CleanFailed(events')) =>
       /\ \A p \in fsDirs' \cup DOMAIN fsFiles' : ~IsPrefix(OUTPUT_DIR, p)
       /\ \A p \in DOMAIN fsFiles' :
            Under(p, INPUT_DIR) =>
              /\ ~IsTempChunkName(Name(p))
              /\ p \in DOMAIN fsFiles /\ fsFiles'[p] = fsFiles[p]
       /\ \A p \in DOMAIN fsFiles :
            (Under(p, INPUT_DIR) /\ ~IsTempChunkName(Name(p))) => p \in DOMAIN fsFiles'
       /\ {d \in fsDirs' : IsPrefix(INPUT_DIR, d)} = {d \in fsDirs : IsPrefix(INPUT_DIR, d)}
       /\ (pc = "cleaned" /\ ~CleanFailed(events)) => fsv' = fsv
    ]_vars

\* C7 witness: the second of two cleanups in a row, neither with a deletion
\* error, the first of which cleared an output folder and deleted a stray
\* chunk of a sub-folder while other input files stayed.
C7_Witness ==
  /\ pc = "cleaned" /\ cleans = 2 /\ ~CleanFailed(events)
  /\ <<"Output folder cleared", OUTPUT_DIR, CleanNo(1)>> \in events
  /\ \E e \in events : e[1] = "deleted" /\ e[3] = CleanNo(1) /\ Parent(e[2]) # INPUT_DIR
  /\ \E p \in DOMAIN fsFiles : Under(p, INPUT_DIR)

\* C8: at most one worker runs at a time; the START button is disabled
\* exactly while a worker runs, and enabled again once the run has ended,
\* normally or with an error.
C8_OneWorker ==
  /\ workers \in {0, 1}
  /\ (workers = 1) <=> (btn_start.state = "disabled")
  /\ (workers = 1) <=> (mode = "gui" /\ (pc = "load" \/ Running))

\* C8 witness: the second run of the GUI has ended with an error and the
\* button is enabled again.
C8_Witness ==
  /\ mode = "gui" /\ pc = "crashed" /\ ops = 2
  /\ workers = 0 /\ btn_start = BtnNormal

\* C9: a conversion run never overwrites or deletes a file of the input tree
\* that was there when the run started (here: in a run without any failure).
C9_InputUntouched ==
  (mode \in {"cli", "gui"} /\ (Running \/ Ended) /\ faults = 0) =>
    \A p \in DOMAIN start_files :
      Under(p, source_root) => (p \in DOMAIN fsFiles /\ fsFiles[p] = start_files[p])

\* C10: in the CLI an output .md is written for a file only if its
\* conversion succeeded completely, every chunk of a PDF included.
C10_SavedOnlyIfComplete ==
  mode = "cli" =>
    \A e \in events :
      e[1] = "Saved" => ~(\E g \in events : g[1] = "Failed" /\ g[2] = e[2])

\* C11: a GUI run works on the input folder, the output folder and the chunk
\* size that were selected when START was pressed, whatever select_input,
\* select_output and the slider do while the worker runs.
C11_RunUsesPressedSelection ==
  (mode = "gui" /\ (Running \/ pc = "done")) =>
    /\ source_root = pressed.input_dir
    /\ dest_root = pressed.output_dir
    /\ chunk_size = pressed.chunk_val

====
